---- MODULE Spec2Model ----
(***************************************************************************)
(* The Pack Manager Cache of tools/arm_pack_manager/__init__.py: one Cache *)
(* object, the files of its cache directory, and the worker threads that   *)
(* do_queue starts for a batch of downloads or for an index rebuild.       *)
(*                                                                         *)
(* Strings are sequences of tokens: a token is a run of word characters    *)
(* ("http", "k", "10"), the three characters "://", or one punctuation     *)
(* character ("/", ".", "\\").  An optional value (an XML tag or attribute *)
(* that may be missing) is a set: {} when missing, {v} when present.       *)
(***************************************************************************)
EXTENDS Integers, Sequences, FiniteSets, TLC

\* ------------------------------------------------------------------ bounds
\* Worker threads one do_queue starts. The code starts range(20) of them; the
\* model runs a smaller pool, and a batch larger than the pool stands for a
\* batch of more than 20 items.
PoolSize == 2
\* API calls the caller makes on the Cache in one run.
MaxOps == 2
\* Scores fuzzywuzzy may give are 0..MaxScore (0..100 in the library).
MaxScore == 2
\* <release> elements of the PDSC files largest_version is applied to.
MaxReleases == 2
\* Runs of the importer, one after the other in the same repository.
MaxRuns == 2

\* ------------------------------------------------------------ small helpers
None == {}
Some(v) == {v}
The(s) == CHOOSE v \in s : TRUE
Range(s) == {s[i] : i \in 1..Len(s)}
Last(s) == s[Len(s)]
Min(a, b) == IF a < b THEN a ELSE b

\* ------------------------------------------------------ strings and paths
\* \w of the regular expression: a token made of word characters.
IsWord(t) == t \notin {"://", "/", ".", "\\"}

RECURSIVE DropWords(_)
DropWords(s) ==
    IF s = <<>> \/ ~IsWord(Last(s)) THEN s
    ELSE DropWords(SubSeq(s, 1, Len(s) - 1))

RECURSIVE StripFrom(_, _)
StripFrom(out, rest) ==
    IF rest = <<>> THEN out
    ELSE IF Head(rest) = "://" THEN StripFrom(DropWords(out), Tail(rest))
    ELSE StripFrom(Append(out, Head(rest)), Tail(rest))

\* protocol_matcher.sub("", url) with protocol_matcher = \w*:// : every "://"
\* goes, with the run of word characters right before it, wherever it stands.
strip_protocol(url) == StripFrom(<<>>, url)

\* os.path.join(a, b) on POSIX.
join(a, b) ==
    IF b # <<>> /\ Head(b) = "/" THEN b
    ELSE IF a = <<>> \/ Last(a) = "/" THEN a \o b
    ELSE a \o <<"/">> \o b

\* save_data_path('arm-pack-manager')
DataDir == <<"/", "data">>

\* dest of cache_file and of pull_from_cache.
Dest(url) == join(DataDir, strip_protocol(url))

\* --------------------------------------------------------------- versions
\* The characters of a token, as character codes ('.' is 46, '0' is 48).
Codes(t) ==
    CASE t = "." -> <<46>>
      [] t = "0" -> <<48>>
      [] t = "1" -> <<49>>
      [] t = "2" -> <<50>>
      [] t = "9" -> <<57>>
      [] t = "10" -> <<49, 48>>
      [] t = "W" -> <<87>>
      [] t = "X" -> <<88>>
      [] t = "Y" -> <<89>>
      [] OTHER -> <<0>>

RECURSIVE Chars(_)
Chars(s) == IF s = <<>> THEN <<>> ELSE Codes(Head(s)) \o Chars(Tail(s))

\* Python's < on two strings, given as character codes.
RECURSIVE StrLess(_, _)
StrLess(a, b) ==
    IF b = <<>> THEN FALSE
    ELSE IF a = <<>> THEN TRUE
    ELSE IF Head(a) # Head(b) THEN Head(a) < Head(b)
    ELSE StrLess(Tail(a), Tail(b))

\* sorted([t['version'] for t in releases], reverse=True)[0] on the version
\* strings vs, a non-empty sequence.
largest_version(vs) ==
    CHOOSE v \in Range(vs) :
        \A u \in Range(vs) : u = v \/ StrLess(Chars(u), Chars(v)) \/ Chars(u) = Chars(v)

\* ------------------------------------------------------- device elements
\* A <device> element as BeautifulSoup gives it: its dname attribute, its
\* <memory> elements, and its first <algorithm>, <debug> and <compile> tags.
Device(dname, memory, algorithm, debug, compile) ==
    [dname |-> dname, memory |-> memory, algorithm |-> algorithm,
     debug |-> debug, compile |-> compile]

Memory(id, start, size) == [id |-> id, start |-> start, size |-> size]

\* str.replace('\\', '/')
ReplaceBackslash(s) == [i \in 1..Len(s) |-> IF s[i] = "\\" THEN "/" ELSE s[i]]

\* dict([(m["id"], dict(start=m["start"], size=m["size"])) for m in mems]):
\* of two elements with one id the later one stays.
MemoryDict(mems) ==
    [id \in {The(mems[i].id) : i \in 1..Len(mems)} |->
        LET k == CHOOSE i \in 1..Len(mems) :
                    /\ The(mems[i].id) = id
                    /\ \A j \in 1..Len(mems) : The(mems[j].id) = id => j <= i
        IN  [start |-> The(mems[k].start), size |-> The(mems[k].size)]]

\* A Python tuple and a Python list of the same items are different values.
Tuple(items) == [type |-> "tuple", items |-> items]
List(items) == [type |-> "list", items |-> items]

\* json.dump(obj, out) and json.load(i) on an index: a tuple is written as a
\* JSON array, and a JSON array is read as a list. The text of the file is
\* given as the value that load reads from it.
dump(obj) ==
    [d \in DOMAIN obj |->
        [f \in DOMAIN obj[d] |->
            IF f = "compile" THEN List(obj[d][f].items) ELSE obj[d][f]]]
load(text) == text

\* The KeyError or TypeError each assignment of _extract_dict can raise.
MemoryRaises(device) ==
    \E i \in 1..Len(device.memory) :
        LET m == device.memory[i] IN m.id = None \/ m.start = None \/ m.size = None
AlgorithmRaises(device) ==
    device.algorithm = None \/ The(device.algorithm).name = None
DebugRaises(device) ==
    device.debug = None \/ The(device.debug).svd = None
CompileRaises(device) ==
    \/ device.compile = None
    \/ The(device.compile).header = None
    \/ The(device.compile).define = None

\* A mutant of _extract_dict: the except clause around each assignment on its
\* own, so a failing field no longer stops the later ones.
ExtractDictEachField(device, filename) ==
    LET r0 == [file |-> filename]
        r1 == IF MemoryRaises(device) THEN r0
              ELSE r0 @@ [memory |-> MemoryDict(device.memory)]
        r2 == IF AlgorithmRaises(device) THEN r1
              ELSE r1 @@ [algorithm |-> ReplaceBackslash(The(The(device.algorithm).name))]
        r3 == IF DebugRaises(device) THEN r2
              ELSE r2 @@ [debug |-> The(The(device.debug).svd)]
    IN  IF CompileRaises(device) THEN r3
        ELSE r3 @@ [compile |-> Tuple(<<The(The(device.compile).header),
                                        The(The(device.compile).define)>>)]

\* Cache._extract_dict: the fields are assigned in the order memory,
\* algorithm, debug, compile inside one try; the first KeyError or TypeError
\* ends the assignments and the record built so far is returned.
_extract_dict(device, filename) ==
    LET r0 == [file |-> filename]
        r1 == r0 @@ [memory |-> MemoryDict(device.memory)]
        r2 == r1 @@ [algorithm |-> ReplaceBackslash(The(The(device.algorithm).name))]
        r3 == r2 @@ [debug |-> The(The(device.debug).svd)]
        r4 == r3 @@ [compile |-> Tuple(<<The(The(device.compile).header),
                                         The(The(device.compile).define)>>)]
    IN  IF MemoryRaises(device) THEN r0
        ELSE IF AlgorithmRaises(device) THEN r1
        ELSE IF DebugRaises(device) THEN r2
        ELSE IF CompileRaises(device) THEN r3
        ELSE r4

\* ----------------------------------------------------------------- files
\* What a file holds, as BeautifulSoup(fd, "html.parser") sees it:
\*   "nofile"    no file at the path (open raises IOError)
\*   "empty"     a file of zero bytes
\*   "idx"       the root index: <pdsc url= name=> elements
\*   "pdsc"      a descriptor: a <package> and <device> elements
\*   "malformed" a descriptor whose parse raises AttributeError
\*   "pack"      a PACK archive
\*   "html"      the page of an HTTP error answer
Doc(kind, pdscs, package, devices) ==
    [kind |-> kind, pdscs |-> pdscs, package |-> package, devices |-> devices]

NoFile == Doc("nofile", <<>>, None, <<>>)
EmptyFile == Doc("empty", <<>>, None, <<>>)
PackDoc == Doc("pack", <<>>, None, <<>>)
MalformedDoc == Doc("malformed", <<>>, None, <<>>)
\* The body of an HTTP error answer (404 Not Found): an HTML page, which the
\* parser reads as a document without <pdsc>, <package> or <device> elements.
NotFoundPage == Doc("html", <<>>, None, <<>>)

Package(url, vendor, name, releases) ==
    [url |-> url, vendor |-> vendor, name |-> name, releases |-> releases]

\* Cache.pdsc_to_pack on the parsed content: the exception it raises, if any,
\* and the PACK URL it returns otherwise.
pdsc_to_pack(content) ==
    LET p == The(content.package)
        new_url == IF Last(The(p.url)) # "/" THEN The(p.url) \o <<"/">> ELSE The(p.url)
        versions == [i \in 1..Len(The(p.releases)) |-> The(The(p.releases)[i])]
    IN  IF content.kind = "nofile" THEN [exc |-> "IOError", url |-> <<>>]
        ELSE IF content.package = None \/ p.url = None \/ p.vendor = None \/ p.name = None
        THEN [exc |-> "AttributeError", url |-> <<>>]
        ELSE IF p.releases = None THEN [exc |-> "TypeError", url |-> <<>>]
        ELSE IF \E i \in 1..Len(The(p.releases)) : The(p.releases)[i] = None
        THEN [exc |-> "KeyError", url |-> <<>>]
        ELSE IF The(p.releases) = <<>> THEN [exc |-> "IndexError", url |-> <<>>]
        ELSE [exc |-> "none",
              url |-> new_url \o The(p.vendor) \o <<".">> \o The(p.name) \o <<".">>
                      \o largest_version(versions) \o <<".", "pack">>]

\* [join(pdsc.get('url'), pdsc.get('name')) for pdsc in root_data.find_all("pdsc")]
PdscUrls(content) ==
    [i \in 1..Len(content.pdscs) |-> join(content.pdscs[i].url, content.pdscs[i].name)]

\* dict([(dev['dname'], self._extract_dict(dev, d)) for dev in devices]): of
\* two devices with one name the later one stays.
DeviceDict(devices, d) ==
    [n \in {The(devices[i].dname) : i \in 1..Len(devices)} |->
        LET k == CHOOSE i \in 1..Len(devices) :
                    /\ The(devices[i].dname) = n
                    /\ \A j \in 1..Len(devices) : The(devices[j].dname) = n => j <= i
        IN  _extract_dict(devices[k], d)]

\* ------------------------------------------------- the URLs and the server
\* RootPackURL
RootPackURL == <<"http", "://", "r">>

\* Descriptor URLs. UrlA and UrlA2 differ only in protocol.
UrlA == <<"http", "://", "k", "/", "a">>
UrlA2 == <<"https", "://", "k", "/", "a">>
UrlB == <<"http", "://", "k", "/", "b">>
UrlC == <<"http", "://", "k", "/", "c">>

GoodMemory == <<Memory(Some("IROM1"), Some("0x0"), Some("0x8000"))>>
GoodAlgorithm == Some([name |-> Some(<<"Flash", "\\", "A", ".", "FLM">>)])
GoodDebug == Some([svd |-> Some("A.svd")])
GoodCompile == Some([header |-> Some("A.h"), define |-> Some("A")])

\* The documents the server holds. The root index lists UrlA and UrlB.
RootDoc ==
    Doc("idx",
        << [url |-> <<"http", "://", "k", "/">>, name |-> <<"a">>],
           [url |-> <<"http", "://", "k">>, name |-> <<"b">>] >>,
        None, <<>>)
PackageA ==
    Package(Some(<<"http", "://", "p", "/">>), Some(<<"V">>), Some(<<"A">>),
            Some(<< Some(<<"1", ".", "0">>) >>))
PackageB ==
    Package(Some(<<"http", "://", "p">>), Some(<<"V">>), Some(<<"B">>),
            Some(<< Some(<<"1", ".", "9">>), Some(<<"1", ".", "10">>) >>))
PackageNoReleases ==
    Package(Some(<<"http", "://", "p">>), Some(<<"V">>), Some(<<"B">>), None)
\* UrlA: device X, complete.
DocA ==
    Doc("pdsc", <<>>, Some(PackageA),
        << Device(Some("X"), GoodMemory, GoodAlgorithm, GoodDebug, GoodCompile) >>)
\* UrlA2: the same package, device X without an algorithm name.
DocA2 ==
    Doc("pdsc", <<>>, Some(PackageA),
        << Device(Some("X"), GoodMemory, Some([name |-> None]), GoodDebug, GoodCompile) >>)
\* UrlB: devices X and Y.
DocB ==
    Doc("pdsc", <<>>, Some(PackageB),
        << Device(Some("X"), <<>>, None, None, None),
           Device(Some("Y"), GoodMemory, GoodAlgorithm, GoodDebug, GoodCompile) >>)
\* UrlB, another answer: no <releases>, and a device without dname.
DocBad ==
    Doc("pdsc", <<>>, Some(PackageNoReleases),
        << Device(None, GoodMemory, GoodAlgorithm, GoodDebug, GoodCompile) >>)
\* UrlC: no <package>, device W.
DocC ==
    Doc("pdsc", <<>>, None,
        << Device(Some("W"), GoodMemory, GoodAlgorithm, None, GoodCompile) >>)

PackUrlA == pdsc_to_pack(DocA).url
PackUrlB == pdsc_to_pack(DocB).url

\* The bodies the server may answer a GET of url with. The handle has no
\* FAILONERROR option set, so perform() returns normally for an answer with an
\* HTTP error status and the body of that answer is written like any other.
Served(url) ==
    CASE url = RootPackURL -> {RootDoc}
      [] url = UrlA -> {DocA}
      [] url = UrlA2 -> {DocA2}
      [] url = UrlB -> {DocB, DocBad, NotFoundPage}
      [] url = UrlC -> {DocC, MalformedDoc}
      [] OTHER -> {PackDoc}

AllUrls == {RootPackURL, UrlA, UrlA2, UrlB, UrlC, PackUrlA, PackUrlB}
AllPaths == {Dest(u) : u \in AllUrls}

\* The lists a caller passes to cache_descriptor_list and to cache_pack_list.
\* One list is longer than the pool and has two URLs of one path, the other
\* repeats a URL that the root index does not list.
DescriptorLists == { <<UrlA, UrlA2, UrlB>> }
PackLists == { <<UrlC, UrlC>> }

\* The options cache_file has set on the curl handle when it calls
\* curl.perform(), for a Cache constructed with no_timeouts.
CurlOptionsOptIn(no_timeouts, url) ==
    LET always == [URL |-> url, FOLLOWLOCATION |-> TRUE, WRITEDATA |-> Dest(url)]
    IN  IF no_timeouts
        THEN always @@ [CONNECTTIMEOUT |-> 2, LOW_SPEED_LIMIT |-> 50 * 1024,
                        LOW_SPEED_TIME |-> 2]
        ELSE always

CurlOptions(no_timeouts, url) ==
    LET always == [URL |-> url, FOLLOWLOCATION |-> TRUE, WRITEDATA |-> Dest(url)]
    IN  IF ~no_timeouts
        THEN always @@ [CONNECTTIMEOUT |-> 2, LOW_SPEED_LIMIT |-> 50 * 1024,
                        LOW_SPEED_TIME |-> 2]
        ELSE always

\* ------------------------------------------------------------------ state
VARIABLES
    files,      \* the cache directory: path -> what the file holds
    _index,     \* Cache._index: device name -> record
    indexJson,  \* index.json: {} when there is no such file, {index} otherwise
    counter,    \* Cache.counter
    total,      \* Cache.total
    urls,       \* Cache.urls (None and [] are both <<>>)
    cpc,        \* where the caller's thread is: "idle", "join", "dump"
    after,      \* what the caller does when the batch it waits for returns
    cexc,       \* the exception the last API call raised to the caller
    ret,        \* what the last find_device or _extract_dict call returned
    ops,        \* API calls made so far
    kind,       \* the function of the running batch
    queue,      \* the Queue of do_queue: items not yet taken
    calls,      \* how often each item of the batch was passed to the function
    unfinished, \* Queue.unfinished_tasks
    workers,    \* the threads of the running do_queue
    threads,    \* live worker threads, of this and of earlier do_queue calls
    changed,    \* a cached file was written since index.json was last written
    stderr,     \* the error lines of the current API call: line -> how many
    \* tools/importer/importer.py, one run after the other in one repository
    ipc,        \* where the importer is in its script; "off" before the first run
    status,     \* the exit status of the run: "none" while it runs
    runs,       \* importer runs started so far
    branches,   \* the local branches of the mbed-os repository
    head,       \* the branch that is checked out
    log,        \* branch -> its commits, oldest first
    last_sha,   \* last_sha of the script: {} for None
    commit_sha, \* commit_sha of the script: the SHAs still to cherry-pick
    existed,    \* the feature branch existed when the run started
    trace       \* what the run has done so far, in order

cacheVars == <<files, _index, indexJson, counter, total, urls, cpc, after, cexc, ret,
               ops, kind, queue, calls, unfinished, workers, threads, changed, stderr>>
impVars == <<ipc, status, runs, branches, head, log, last_sha, commit_sha, existed,
             trace>>
vars == <<cacheVars, impVars>>

Workers == 1..PoolSize
EmptyIndex == [n \in {} |-> 0]
NoRet == [op |-> "none"]

\* stderr.write(...) of one line, on the lines written so far.
NoLines == [l \in {} |-> 0]
WriteLine(lines, l) ==
    IF l \in DOMAIN lines THEN [lines EXCEPT ![l] = @ + 1] ELSE (l :> 1) @@ lines
\* "[ ERROR ] file {} did not download {}\n"
DidNotDownload(url) == <<"did not download", url>>
\* "[ ERROR ] {} does not appear to be a conforming .pdsc file\n"
NotConforming(url) == <<"not a conforming .pdsc file", url>>

\* A worker blocked in queue.get().
Waiting ==
    [pc |-> "get", item |-> <<>>, url |-> <<>>, phase |-> "", tmp |-> 0,
     dict |-> EmptyIndex]
\* A worker whose run() ended with the exception exc, raised on item.
Dead(item, exc) ==
    [pc |-> "dead", item |-> item, url |-> <<>>, phase |-> exc, tmp |-> 0,
     dict |-> EmptyIndex]

\* ------------------------------------------- the importer's repository
\* Branch names, as the pieces 'git branch' prints them in. branch is
\* 'feature_' + basename(repo) + '_' + sha; OtherBranch is a branch whose name
\* begins with that text.
Master == <<"master">>
branch == <<"feature_r_s">>
OtherBranch == <<"feature_r_s", "_old">>
BranchNames == {Master, branch, OtherBranch}

\* A commit of the log: an ordinary one, the import commit, or one made by
\* 'git cherry-pick -x sha', whose message ends with the line
\* "(cherry picked from commit sha)".
Plain == [kind |-> "plain", sha |-> ""]
ImportCommit == [kind |-> "import", sha |-> ""]
CherryPicked(sha) == [kind |-> "pick", sha |-> sha]

\* The commit_sha list of the config file: an entry is a SHA, or a dict with
\* the SHA under 'sha'.
ConfigCommitSha ==
    << [type |-> "str", sha |-> "a"], [type |-> "dict", sha |-> "b"] >>

\* normalize_commit_sha(sha_lst)
normalize_commit_sha(sha_lst) == [i \in 1..Len(sha_lst) |-> sha_lst[i].sha]

\* No importer run has started; only master exists.
ImporterIdle ==
    /\ ipc = "off"
    /\ status = None
    /\ runs = 0
    /\ branches = {Master}
    /\ head = Master
    /\ log = [b \in BranchNames |-> IF b = Master THEN <<Plain>> ELSE <<>>]
    /\ last_sha = None
    /\ commit_sha = <<>>
    /\ existed = FALSE
    /\ trace = <<>>

\* Cache.__init__, an empty cache directory, no thread.
CacheInit ==
    /\ files = [p \in AllPaths |-> NoFile]
    /\ _index = EmptyIndex
    /\ indexJson = None
    /\ counter = 0
    /\ total = 1
    /\ urls = <<>>
    /\ cpc = "idle"
    /\ after = "return"
    /\ cexc = "none"
    /\ ret = NoRet
    /\ ops = 0
    /\ kind = "none"
    /\ queue = <<>>
    /\ calls = <<>>
    /\ unfinished = 0
    /\ workers = [w \in Workers |-> Waiting]
    /\ threads = 0
    /\ changed = FALSE
    /\ stderr = NoLines

Init == CacheInit /\ ImporterIdle

\* ---------------------------------------------------------------- do_queue
\* do_queue(Class, function, interable) up to q.join(): PoolSize new threads,
\* every item put on the queue.
StartQueue(function, interable) ==
    /\ kind' = function
    /\ queue' = interable
    /\ calls' = [i \in 1..Len(interable) |-> 0]
    /\ unfinished' = Len(interable)
    /\ workers' = [w \in Workers |-> Waiting]
    /\ threads' = threads + PoolSize

\* self.queue.task_done() and back to self.queue.get().
TaskDone(w) ==
    /\ unfinished' = unfinished - 1
    /\ workers' = [workers EXCEPT ![w] = Waiting]
    /\ UNCHANGED threads

\* An exception leaves func and run(): the thread ends, task_done() is not
\* called.
Die(w, exc) ==
    /\ workers' = [workers EXCEPT ![w] = Dead(workers[w].item, exc)]
    /\ threads' = threads - 1
    /\ UNCHANGED unfinished

\* A mutant of Get: the item is read from the queue and left on it.
GetNoRemove(w) ==
    /\ workers[w].pc = "get"
    /\ \A v \in Workers : workers[v].pc = "get" => w <= v
    /\ queue # <<>>
    /\ queue' = queue
    /\ calls' = [calls EXCEPT ![Len(calls) - Len(queue) + 1] = @ + 1]
    /\ workers' = [workers EXCEPT ![w] =
          [Waiting EXCEPT !.pc = IF kind = "_generate_index_helper" THEN "read" ELSE "open",
                          !.item = Head(queue),
                          !.url = Head(queue),
                          !.phase = IF kind = "cache_pdsc_and_pack" THEN "pdsc"
                                    ELSE kind]]
    /\ UNCHANGED <<files, _index, indexJson, counter, total, urls, cpc, after, cexc,
                   ret, ops, kind, unfinished, threads, changed, stderr>>
    /\ UNCHANGED impVars

\* url = self.queue.get() of Reader.run and Cacher.run, and the call
\* self.func(url) begins. The threads blocked in get() are alike, so the one
\* that gets the item is taken to be the first.
Get(w) ==
    /\ workers[w].pc = "get"
    /\ \A v \in Workers : workers[v].pc = "get" => w <= v
    /\ queue # <<>>
    /\ queue' = Tail(queue)
    /\ calls' = [calls EXCEPT ![Len(calls) - Len(queue) + 1] = @ + 1]
    /\ workers' = [workers EXCEPT ![w] =
          [Waiting EXCEPT !.pc = IF kind = "_generate_index_helper" THEN "read" ELSE "open",
                          !.item = Head(queue),
                          !.url = Head(queue),
                          !.phase = IF kind = "cache_pdsc_and_pack" THEN "pdsc"
                                    ELSE kind]]
    /\ UNCHANGED <<files, _index, indexJson, counter, total, urls, cpc, after, cexc,
                   ret, ops, kind, unfinished, threads, changed, stderr>>
    /\ UNCHANGED impVars

\* -------------------------------------------------------------- cache_file
\* cache_file up to the open of dest: makedirs(dirname(dest)) and
\* open(dest, "wb+"), which creates the file or truncates it. An OSError other
\* than EEXIST, or the IOError of open, leaves cache_file and the thread.
Open(w) ==
    /\ workers[w].pc = "open"
    /\ \/ /\ files' = [files EXCEPT ![Dest(workers[w].url)] = EmptyFile]
          /\ changed' = TRUE
          /\ workers' = [workers EXCEPT ![w].pc = "perform"]
          /\ UNCHANGED <<unfinished, threads>>
       \/ /\ Die(w, "OSError")
          /\ UNCHANGED <<files, changed>>
    /\ UNCHANGED <<_index, indexJson, counter, total, urls, cpc, after, cexc, ret,
                   ops, kind, queue, calls, stderr>>
    /\ UNCHANGED impVars

\* The file after curl.perform() and the end of the with block: the body when
\* the download worked; when perform raised, the exception is caught and the
\* file stays as it is.
WriteBody(fs, url, ok, body) ==
    [fs EXCEPT ![Dest(url)] = IF ok THEN body ELSE @]

\* curl.perform() with WRITEDATA the open file, then the file is closed.
Perform(w) ==
    /\ workers[w].pc = "perform"
    /\ \E ok \in BOOLEAN : \E body \in Served(workers[w].url) :
          /\ files' = WriteBody(files, workers[w].url, ok, body)
          /\ stderr' = IF ok THEN stderr
                        ELSE WriteLine(stderr, DidNotDownload(workers[w].url))
    /\ workers' = [workers EXCEPT ![w].pc = "load"]
    /\ UNCHANGED <<_index, indexJson, counter, total, urls, cpc, after, cexc, ret,
                   ops, kind, queue, calls, unfinished, threads, changed>>
    /\ UNCHANGED impVars

\* self.counter += 1, first half: the value of self.counter is read.
Load(w) ==
    /\ workers[w].pc = "load"
    /\ workers' = [workers EXCEPT ![w].pc = "store", ![w].tmp = counter]
    /\ UNCHANGED <<files, _index, indexJson, counter, total, urls, cpc, after, cexc,
                   ret, ops, kind, queue, calls, unfinished, threads, changed, stderr>>
    /\ UNCHANGED impVars

\* self.counter += 1, second half: the sum is stored; display_counter; the
\* function returns. After the first cache_file of cache_pdsc_and_pack the
\* worker goes on to pdsc_to_pack, otherwise func has returned.
Store(w) ==
    /\ workers[w].pc = "store"
    /\ counter' = workers[w].tmp + 1
    /\ IF workers[w].phase = "pdsc"
       THEN /\ workers' = [workers EXCEPT ![w].pc = "to_pack", ![w].tmp = 0]
            /\ UNCHANGED <<unfinished, threads>>
       ELSE TaskDone(w)
    /\ UNCHANGED <<files, _index, indexJson, total, urls, cpc, after, cexc, ret,
                   ops, kind, queue, calls, changed, stderr>>
    /\ UNCHANGED impVars

\* cache_pdsc_and_pack after its first cache_file: self.pdsc_to_pack(url). An
\* AttributeError is caught (the counter is then incremented); with the PACK
\* URL the second cache_file starts; any other exception ends the thread.
ToPack(w) ==
    /\ workers[w].pc = "to_pack"
    /\ LET r == pdsc_to_pack(files[Dest(workers[w].item)])
       IN  IF r.exc = "none"
           THEN /\ workers' = [workers EXCEPT ![w].pc = "open", ![w].url = r.url,
                                              ![w].phase = "pack"]
                /\ UNCHANGED <<unfinished, threads>>
           ELSE IF r.exc = "AttributeError"
           THEN /\ workers' = [workers EXCEPT ![w].pc = "load", ![w].phase = "except"]
                /\ UNCHANGED <<unfinished, threads>>
           ELSE Die(w, r.exc)
    /\ stderr' = IF pdsc_to_pack(files[Dest(workers[w].item)]).exc = "AttributeError"
                  THEN WriteLine(stderr, NotConforming(workers[w].item))
                  ELSE stderr
    /\ UNCHANGED <<files, _index, indexJson, counter, total, urls, cpc, after, cexc,
                   ret, ops, kind, queue, calls, changed>>
    /\ UNCHANGED impVars

\* --------------------------------------------------- _generate_index_helper
\* The argument of self._index.update: pull_from_cache(d) raises IOError when
\* there is no file, dev['dname'] raises KeyError for a device without dname
\* (neither is caught: the thread ends); an AttributeError is caught and
\* printed, and nothing is put in the index.
Read(w) ==
    /\ workers[w].pc = "read"
    /\ LET content == files[Dest(workers[w].item)]
       IN  IF content.kind = "nofile" THEN Die(w, "IOError")
           ELSE IF content.kind = "malformed"
           THEN /\ workers' = [workers EXCEPT ![w].pc = "load"]
                /\ UNCHANGED <<unfinished, threads>>
           ELSE IF \E i \in 1..Len(content.devices) : content.devices[i].dname = None
           THEN Die(w, "KeyError")
           ELSE /\ workers' = [workers EXCEPT ![w].pc = "update",
                      ![w].dict = DeviceDict(content.devices, workers[w].item)]
                /\ UNCHANGED <<unfinished, threads>>
    /\ UNCHANGED <<files, _index, indexJson, counter, total, urls, cpc, after, cexc,
                   ret, ops, kind, queue, calls, changed, stderr>>
    /\ UNCHANGED impVars

\* self._index.update(...): the entries of the argument replace those of the
\* same name.
Update(w) ==
    /\ workers[w].pc = "update"
    /\ _index' = workers[w].dict @@ _index
    /\ workers' = [workers EXCEPT ![w].pc = "load", ![w].dict = EmptyIndex]
    /\ UNCHANGED <<files, indexJson, counter, total, urls, cpc, after, cexc, ret,
                   ops, kind, queue, calls, unfinished, threads, changed, stderr>>
    /\ UNCHANGED impVars

\* ---------------------------------------------------------------- get_urls
\* Cache.get_urls called with the files fs, the counter cnt, self.urls us and
\* the lines written to stderr: the ways it can end. With self.urls empty the
\* root index is read from the cache; when that raises IOError,
\* cache_and_parse downloads it in the caller's thread (cache_file, then
\* pull_from_cache).
get_urls(fs, cnt, us, lines) ==
    LET end(f, c, u, l, e) ==
            [files |-> f, counter |-> c, urls |-> u, stderr |-> l, exc |-> e]
        dest == Dest(RootPackURL)
        opened == [fs EXCEPT ![dest] = EmptyFile]
    IN  IF us # <<>> THEN {end(fs, cnt, us, lines, "none")}
        ELSE IF fs[dest] # NoFile
        THEN {end(fs, cnt, PdscUrls(fs[dest]), lines, "none")}
        ELSE {end(fs, cnt, us, lines, "OSError")}
             \cup {end(WriteBody(opened, RootPackURL, ok, body),
                       cnt + 1,
                       PdscUrls(WriteBody(opened, RootPackURL, ok, body)[dest]),
                       IF ok THEN lines ELSE WriteLine(lines, DidNotDownload(RootPackURL)),
                       "none") : ok \in BOOLEAN, body \in Served(RootPackURL)}

\* ------------------------------------------------------------- find_device
\* sorted(...) on (score, key) tuples: tuples compare by score, then by key.
TupleLess(p, q) ==
    p[1] < q[1] \/ (p[1] = q[1] /\ StrLess(Codes(p[2]), Codes(q[2])))

RECURSIVE SortedReverse(_)
SortedReverse(S) ==
    IF S = {} THEN <<>>
    ELSE LET m == CHOOSE p \in S : \A q \in S : q = p \/ TupleLess(q, p)
         IN  <<m>> \o SortedReverse(S \ {m})

\* takewhile(lambda t: t[0] == top, choices)
RECURSIVE takewhile(_, _)
takewhile(top, choices) ==
    IF choices = <<>> \/ Head(choices)[1] # top THEN <<>>
    ELSE <<Head(choices)>> \o takewhile(top, Tail(choices))

\* process.extract(match, keys, limit=limit): limit of the (key, score) pairs,
\* those of the largest scores; score[k] is the similarity of key k to match.
extract(score, keys, limit) ==
    LET n == Min(limit, Cardinality(keys))
        best == CHOOSE B \in SUBSET keys :
                    /\ Cardinality(B) = n
                    /\ \A b \in B : \A k \in keys \ B : score[k] <= score[b]
    IN  {<<k, score[k]>> : k \in best}

\* A mutant of find_device: the best match alone is returned.
FindDeviceFirst(score, index) ==
    LET choices == SortedReverse({<<c[2], c[1]>> :
                       c \in extract(score, DOMAIN index, Cardinality(DOMAIN index))})
    IN  IF choices = <<>> THEN <<>>
        ELSE << <<choices[1][2], index[choices[1][2]]>> >>

\* Cache.find_device on the value index of self.index.
find_device(score, index) ==
    LET choices == SortedReverse({<<c[2], c[1]>> :
                       c \in extract(score, DOMAIN index, Cardinality(DOMAIN index))})
        top == takewhile(choices[1][1], choices)
    IN  IF choices = <<>> THEN <<>>
        ELSE [i \in 1..Len(top) |-> <<top[i][2], index[top[i][2]]>>]

DeviceNames == {"W", "X", "Y"}
Scores == [DeviceNames -> 0..MaxScore]

\* ------------------------------------------------------- the caller's side
\* cache_descriptor_list and cache_pack_list up to q.join(): self.total is
\* set, self.counter is not.
CacheList(function, list, cont) ==
    /\ total' = IF function = "cache_file" THEN Len(list) ELSE Len(list) * 2
    /\ StartQueue(function, list)
    /\ cpc' = "join"
    /\ after' = cont

\* A mutant of GenerateIndexBody: self._index is not reset before the rebuild.
GenerateIndexBodyNoReset(cont, lines) ==
    \E g \in get_urls(files, 0, urls, lines) :
        /\ _index' = _index
        /\ stderr' = g.stderr
        /\ files' = g.files
        /\ counter' = g.counter
        /\ urls' = g.urls
        /\ changed' = (changed \/ g.files # files)
        /\ cexc' = g.exc
        /\ IF g.exc = "none"
           THEN /\ StartQueue("_generate_index_helper", g.urls)
                /\ cpc' = "join"
                /\ after' = cont
           ELSE /\ cpc' = "idle"
                /\ after' = "return"
                /\ kind' = "none"
                /\ UNCHANGED <<queue, calls, unfinished, workers, threads>>
        /\ UNCHANGED <<indexJson, total>>

\* generate_index up to q.join(): the index and the counter are reset, then
\* get_urls() is evaluated and the Readers are started. An exception of
\* get_urls reaches the caller.
GenerateIndexBody(cont, lines) ==
    \E g \in get_urls(files, 0, urls, lines) :
        /\ _index' = EmptyIndex
        /\ stderr' = g.stderr
        /\ files' = g.files
        /\ counter' = g.counter
        /\ urls' = g.urls
        /\ changed' = (changed \/ g.files # files)
        /\ cexc' = g.exc
        /\ IF g.exc = "none"
           THEN /\ StartQueue("_generate_index_helper", g.urls)
                /\ cpc' = "join"
                /\ after' = cont
           ELSE /\ cpc' = "idle"
                /\ after' = "return"
                /\ kind' = "none"
                /\ UNCHANGED <<queue, calls, unfinished, workers, threads>>
        /\ UNCHANGED <<indexJson, total>>

\* cache_descriptors and cache_everything up to q.join(): get_urls(), then the
\* list is cached; generate_index follows the batch.
CacheKnown(function) ==
    \E g \in get_urls(files, counter, urls, NoLines) :
        /\ stderr' = g.stderr
        /\ files' = g.files
        /\ counter' = g.counter
        /\ urls' = g.urls
        /\ changed' = (changed \/ g.files # files)
        /\ cexc' = g.exc
        /\ IF g.exc = "none"
           THEN CacheList(function, g.urls, "generate_index")
           ELSE UNCHANGED <<total, kind, queue, calls, unfinished, workers, threads, cpc, after>>
        /\ UNCHANGED <<_index, indexJson>>

NewCall ==
    /\ cpc = "idle"
    /\ ops < MaxOps
    /\ ops' = ops + 1

cache_descriptor_list(list) ==
    /\ NewCall
    /\ CacheList("cache_file", list, "return")
    /\ cexc' = "none"
    /\ ret' = NoRet
    /\ stderr' = NoLines
    /\ UNCHANGED <<files, _index, indexJson, counter, urls, changed>>
    /\ UNCHANGED impVars

cache_pack_list(list) ==
    /\ NewCall
    /\ CacheList("cache_pdsc_and_pack", list, "return")
    /\ cexc' = "none"
    /\ ret' = NoRet
    /\ stderr' = NoLines
    /\ UNCHANGED <<files, _index, indexJson, counter, urls, changed>>
    /\ UNCHANGED impVars

cache_descriptors ==
    /\ NewCall
    /\ CacheKnown("cache_file")
    /\ ret' = NoRet
    /\ UNCHANGED impVars

cache_everything ==
    /\ NewCall
    /\ CacheKnown("cache_pdsc_and_pack")
    /\ ret' = NoRet
    /\ UNCHANGED impVars

generate_index ==
    /\ NewCall
    /\ GenerateIndexBody("dump", NoLines)
    /\ ret' = NoRet
    /\ UNCHANGED impVars

\* What find_device returned for the similarity scores score on the index.
Found(score, index) ==
    [op |-> "find_device", score |-> score, index |-> index,
     value |-> find_device(score, index)]

\* A mutant of FindDevice: the index property calls generate_index whether or
\* not an index is at hand.
FindDeviceAlwaysGenerate(score) ==
    /\ NewCall
    /\ GenerateIndexBody("find", NoLines)
    /\ ret' = NoRet
    /\ UNCHANGED impVars

\* Cache.find_device(match). The index property gives self._index when it is
\* not empty, loads index.json otherwise, and calls generate_index when
\* there is no index.json.
FindDevice(score) ==
    /\ NewCall
    /\ IF _index # EmptyIndex \/ indexJson # None
       THEN /\ _index' = IF _index # EmptyIndex THEN _index ELSE load(The(indexJson))
            /\ ret' = Found(score, _index')
            /\ cexc' = "none"
            /\ stderr' = NoLines
            /\ UNCHANGED <<files, indexJson, counter, total, urls, cpc, after, kind,
                           queue, calls, unfinished, workers, threads, changed>>
       ELSE /\ GenerateIndexBody("find", NoLines)
            /\ ret' = NoRet
    /\ UNCHANGED impVars

\* A mutant of Join: q.join() returns as soon as the queue is empty.
JoinEarly ==
    /\ cpc = "join"
    /\ queue = <<>>
    /\ IF after = "generate_index"
       THEN GenerateIndexBody("dump", stderr)
       ELSE /\ cpc' = IF after = "return" THEN "idle" ELSE "dump"
            /\ kind' = "none"
            /\ UNCHANGED <<files, _index, indexJson, counter, total, urls, after, cexc,
                           queue, calls, unfinished, workers, threads, changed, stderr>>
    /\ UNCHANGED <<ret, ops>>
    /\ UNCHANGED impVars

\* q.join() returns: every item put on the queue was marked done. The caller
\* returns, or goes on with generate_index.
Join ==
    /\ cpc = "join"
    /\ unfinished = 0
    /\ IF after = "generate_index"
       THEN GenerateIndexBody("dump", stderr)
       ELSE /\ cpc' = IF after = "return" THEN "idle" ELSE "dump"
            /\ kind' = "none"
            /\ UNCHANGED <<files, _index, indexJson, counter, total, urls, after, cexc,
                           queue, calls, unfinished, workers, threads, changed, stderr>>
    /\ UNCHANGED <<ret, ops>>
    /\ UNCHANGED impVars

\* generate_index after q.join(): dump(self._index, out) into index.json.
\* When the index property called generate_index for find_device,
\* find_device goes on with the index.
Dump ==
    /\ cpc = "dump"
    /\ indexJson' = Some(dump(_index))
    /\ changed' = FALSE
    /\ cpc' = "idle"
    /\ after' = "return"
    /\ IF after = "find"
       THEN \E score \in Scores : ret' = Found(score, _index)
       ELSE UNCHANGED ret
    /\ UNCHANGED <<files, _index, counter, total, urls, cexc, ops, kind, queue, calls,
                   unfinished, workers, threads, stderr>>
    /\ UNCHANGED impVars

Next ==
    \/ \E list \in DescriptorLists : cache_descriptor_list(list)
    \/ \E list \in PackLists : cache_pack_list(list)
    \/ cache_descriptors
    \/ cache_everything
    \/ generate_index
    \/ \E score \in Scores : FindDevice(score)
    \/ Join
    \/ Dump
    \/ \E w \in Workers :
          Get(w) \/ Open(w) \/ Perform(w) \/ Load(w) \/ Store(w) \/ ToPack(w)
          \/ Read(w) \/ Update(w)

Spec == Init /\ [][Next]_vars

\* ------------------------------------------- the functions on their own
\* The device elements _extract_dict is applied to: each attribute present or
\* missing, each tag present or missing.
MemoryChoices ==
    { <<>>,
      GoodMemory,
      <<Memory(Some("IROM1"), Some("0x0"), Some("0x8000")),
        Memory(Some("IROM1"), Some("0x4"), Some("0x4000"))>>,
      <<Memory(Some("IROM1"), None, Some("0x8000"))>>,
      <<Memory(Some("IROM1"), Some("0x0"), Some("0x8000")),
        Memory(None, Some("0x0"), Some("0x8000"))>> }
AlgorithmChoices == { None, Some([name |-> None]), GoodAlgorithm }
DebugChoices == { None, Some([svd |-> None]), GoodDebug }
CompileChoices ==
    { None, Some([header |-> None, define |-> Some("A")]),
      Some([header |-> Some("A.h"), define |-> None]), GoodCompile }
DeviceElements ==
    { Device(Some("X"), m, a, d, c) :
        m \in MemoryChoices, a \in AlgorithmChoices, d \in DebugChoices,
        c \in CompileChoices }

\* The indexes find_device is applied to: every set of names as its keys.
IndexChoices ==
    { [n \in K |-> _extract_dict(Device(Some(n), GoodMemory, GoodAlgorithm,
                                         GoodDebug, GoodCompile), UrlA)] :
        K \in SUBSET DeviceNames }

\* A Cache whose index was built and written before.
InitFn ==
    /\ files = [p \in AllPaths |-> NoFile]
    /\ _index \in IndexChoices
    /\ indexJson = Some(dump(_index))
    /\ counter = 0
    /\ total = 1
    /\ urls = <<>>
    /\ cpc = "idle"
    /\ after = "return"
    /\ cexc = "none"
    /\ ret = NoRet
    /\ ops = 0
    /\ kind = "none"
    /\ queue = <<>>
    /\ calls = <<>>
    /\ unfinished = 0
    /\ workers = [w \in Workers |-> Waiting]
    /\ threads = 0
    /\ changed = FALSE
    /\ stderr = NoLines
    /\ ImporterIdle

\* One call self._extract_dict(device, filename).
ExtractDict(device, filename) ==
    /\ cpc = "idle"
    /\ ret = NoRet
    /\ ret' = [op |-> "_extract_dict", device |-> device, filename |-> filename,
               value |-> _extract_dict(device, filename)]
    /\ UNCHANGED <<files, _index, indexJson, counter, total, urls, cpc, after, cexc,
                   ops, kind, queue, calls, unfinished, workers, threads, changed, stderr>>
    /\ UNCHANGED impVars

\* The URLs the path of a cache file is computed for: with one protocol
\* prefix, with a second "://" further on, with a path that starts with "/"
\* after the prefix, and without a prefix.
PathUrls ==
    { UrlA, UrlA2, UrlB,
      <<"http", "://", "k", "/", "http", "://", "a">>,
      <<"file", "://", "/", "x">>,
      <<"k", "/", "a">> }

\* dest as cache_file(curl, url) and as pull_from_cache(url) compute it.
CachePath(url) ==
    /\ cpc = "idle"
    /\ ret = NoRet
    /\ ret' = [op |-> "dest", url |-> url,
               cache_file |-> join(DataDir, strip_protocol(url)),
               pull_from_cache |-> join(DataDir, strip_protocol(url))]
    /\ UNCHANGED <<files, _index, indexJson, counter, total, urls, cpc, after, cexc,
                   ops, kind, queue, calls, unfinished, workers, threads, changed, stderr>>
    /\ UNCHANGED impVars

\* cache_file(curl, url) of a Cache(silent, no_timeouts) up to curl.perform().
Setopt(no_timeouts, url) ==
    /\ cpc = "idle"
    /\ ret = NoRet
    /\ ret' = [op |-> "cache_file", no_timeouts |-> no_timeouts, url |-> url,
               options |-> CurlOptions(no_timeouts, url)]
    /\ UNCHANGED <<files, _index, indexJson, counter, total, urls, cpc, after, cexc,
                   ops, kind, queue, calls, unfinished, workers, threads, changed, stderr>>
    /\ UNCHANGED impVars

\* The version strings of the <release> elements, and the lists of them that
\* content.package.releases('release') may give.
Versions ==
    { <<"1", ".", "0">>, <<"1", ".", "9">>, <<"1", ".", "10">>, <<"2", ".", "0">>,
      <<"1", ".", "9", ".", "0">>, <<"1", ".", "10", ".", "0">> }
ReleaseLists ==
    UNION { [1..n -> Versions] : n \in 1..MaxReleases }

\* One call largest_version(content) on a PDSC with the releases vs.
LargestVersion(vs) ==
    /\ cpc = "idle"
    /\ ret = NoRet
    /\ ret' = [op |-> "largest_version", versions |-> vs, value |-> largest_version(vs)]
    /\ UNCHANGED <<files, _index, indexJson, counter, total, urls, cpc, after, cexc,
                   ops, kind, queue, calls, unfinished, workers, threads, changed,
                   stderr>>
    /\ UNCHANGED impVars

NextFn ==
    \/ \E device \in DeviceElements : \E filename \in {UrlA, UrlB} :
          ExtractDict(device, filename)
    \/ \E score \in Scores : FindDevice(score)
    \/ \E url \in PathUrls : CachePath(url)
    \/ \E no_timeouts \in BOOLEAN : \E url \in PathUrls : Setopt(no_timeouts, url)
    \/ \E vs \in ReleaseLists : LargestVersion(vs)

SpecFn == InitFn /\ [][NextFn]_vars

\* ------------------------------------------------------------ the importer
\* tools/importer/importer.py, run from the mbed-os directory with a
\* repository path and a config file that exist. Each git command either
\* works or fails (a non-zero return code).

\* What the run did, for the trace.
Event(e) == [e |-> e, arg |-> "", on |-> <<>>]
PickEvent(sha, on) == [e |-> "pick", arg |-> sha, on |-> on]
FailEvent(cmd) == [e |-> "fail", arg |-> cmd, on |-> <<>>]

\* 'name in output' on text: a is found somewhere in b.
IsSubstring(a, b) ==
    \E i \in 1..(Len(b) - Len(a) + 1) : SubSeq(b, i, i + Len(a) - 1) = a

\* A mutant of run_cmd_with_output: exit_on_failure is ignored, the function
\* always returns.
RunCmdNeverExits(ok, exit_on_failure) == FALSE

\* run_cmd_with_output(command, exit_on_failure): TRUE when it calls
\* sys.exit(1), which it does when the command failed and exit_on_failure is
\* set; otherwise it returns the return code and the output.
run_cmd_with_output(ok, exit_on_failure) == ~ok /\ exit_on_failure

\* The script after a command cmd that failed: it has exited with status 1,
\* or goes on at next. The trace records the failure.
Failed(cmd, exit_on_failure, next) ==
    /\ trace' = Append(trace, FailEvent(cmd))
    /\ IF run_cmd_with_output(FALSE, exit_on_failure)
       THEN /\ ipc' = "exit"
            /\ status' = Some(1)
       ELSE /\ ipc' = next
            /\ UNCHANGED status

\* The script up to branch_exists: the arguments are checked, get_curr_sha
\* runs 'git log' in the repository to import with exit_on_failure=True (and
\* the script exits when it gets no SHA), the config file is read. A new run
\* starts in the repository as the run before left it.
Start ==
    /\ ipc \in {"off", "exit"}
    /\ runs < MaxRuns
    /\ runs' = runs + 1
    /\ existed' = (branch \in branches)
    /\ last_sha' = None
    /\ commit_sha' = <<>>
    /\ \E ok \in BOOLEAN :
          /\ trace' = IF ok THEN <<>> ELSE <<FailEvent("log")>>
          /\ IF run_cmd_with_output(ok, TRUE) \/ ~ok
             THEN /\ ipc' = "exit"
                  /\ status' = Some(1)
             ELSE /\ ipc' = "branch_exists"
                  /\ status' = None
    /\ UNCHANGED <<branches, head, log>>
    /\ UNCHANGED cacheVars

\* if branch_exists(branch): 'git branch' with exit_on_failure=False, then
\* 'name in output'. After a failure the output is the empty string.
branch_exists ==
    /\ ipc = "branch_exists"
    /\ \E ok \in BOOLEAN :
          LET output == IF ok THEN branches ELSE {}
          IN  ipc' = IF \E b \in output : IsSubstring(branch, b)
                     THEN "branch_checkout" ELSE "del_file"
    /\ UNCHANGED <<status, runs, branches, head, log, last_sha, commit_sha, existed,
                   trace>>
    /\ UNCHANGED cacheVars

\* del_file(os.path.basename(src_file)) for the file of the config. When a
\* file of that name is found under rtos, cmsis or features, it is removed
\* and the logging line that follows raises (it names 'file', not f): the
\* script ends with a traceback, status 1.
del_file ==
    /\ ipc = "del_file"
    /\ \E found \in BOOLEAN :
          IF found
          THEN /\ trace' = Append(trace, Event("delete"))
               /\ ipc' = "exit"
               /\ status' = Some(1)
          ELSE /\ ipc' = "remove_dest"
               /\ UNCHANGED <<trace, status>>
    /\ UNCHANGED <<runs, branches, head, log, last_sha, commit_sha, existed>>
    /\ UNCHANGED cacheVars

\* if isfile(dest_file): os.remove(...)
remove_dest ==
    /\ ipc = "remove_dest"
    /\ \E isfile \in BOOLEAN :
          trace' = IF isfile THEN Append(trace, Event("delete")) ELSE trace
    /\ ipc' = "delete_dir_files"
    /\ UNCHANGED <<status, runs, branches, head, log, last_sha, commit_sha, existed>>
    /\ UNCHANGED cacheVars

\* delete_dir_files(dest_folder) for the folder of the config.
delete_dir_files ==
    /\ ipc = "delete_dir_files"
    /\ trace' = Append(trace, Event("delete"))
    /\ ipc' = "copy_file"
    /\ UNCHANGED <<status, runs, branches, head, log, last_sha, commit_sha, existed>>
    /\ UNCHANGED cacheVars

\* copy_file(repo_file, mbed_path) for the file of the config.
copy_file ==
    /\ ipc = "copy_file"
    /\ trace' = Append(trace, Event("copy"))
    /\ ipc' = "copy_folder"
    /\ UNCHANGED <<status, runs, branches, head, log, last_sha, commit_sha, existed>>
    /\ UNCHANGED cacheVars

\* copy_folder(repo_folder, mbed_path) for the folder of the config.
copy_folder ==
    /\ ipc = "copy_folder"
    /\ trace' = Append(trace, Event("copy"))
    /\ ipc' = "create_branch"
    /\ UNCHANGED <<status, runs, branches, head, log, last_sha, commit_sha, existed>>
    /\ UNCHANGED cacheVars

\* 'git checkout -b branch', exit_on_failure=True. It fails when the branch
\* exists.
create_branch ==
    /\ ipc = "create_branch"
    /\ \E ok \in BOOLEAN :
          IF ok /\ branch \notin branches
          THEN /\ branches' = branches \cup {branch}
               /\ log' = [log EXCEPT ![branch] = log[head]]
               /\ head' = branch
               /\ trace' = Append(trace, Event("branch"))
               /\ ipc' = "add_files"
               /\ UNCHANGED status
          ELSE /\ Failed("checkout -b", TRUE, "add_files")
               /\ UNCHANGED <<branches, log, head>>
    /\ UNCHANGED <<runs, last_sha, commit_sha, existed>>
    /\ UNCHANGED cacheVars

\* 'git add -A', exit_on_failure=True.
add_files ==
    /\ ipc = "add_files"
    /\ \E ok \in BOOLEAN :
          IF ok
          THEN /\ trace' = Append(trace, Event("add"))
               /\ ipc' = "commit_branch"
               /\ UNCHANGED status
          ELSE Failed("add", TRUE, "commit_branch")
    /\ UNCHANGED <<runs, branches, head, log, last_sha, commit_sha, existed>>
    /\ UNCHANGED cacheVars

\* 'git commit -m commit_msg', exit_on_failure=True.
commit_branch ==
    /\ ipc = "commit_branch"
    /\ \E ok \in BOOLEAN :
          IF ok
          THEN /\ log' = [log EXCEPT ![head] = Append(@, ImportCommit)]
               /\ trace' = Append(trace, Event("commit"))
               /\ ipc' = "branch_checkout"
               /\ UNCHANGED status
          ELSE /\ Failed("commit", TRUE, "branch_checkout")
               /\ UNCHANGED log
    /\ UNCHANGED <<runs, branches, head, last_sha, commit_sha, existed>>
    /\ UNCHANGED cacheVars

\* 'git checkout name' with exit_on_failure=False: the branch that is checked
\* out afterwards. It fails when there is no such branch.
Checkout(ok, name) == IF ok /\ name \in branches THEN name ELSE head

\* branch_checkout(branch)
branch_checkout ==
    /\ ipc = "branch_checkout"
    /\ \E ok \in BOOLEAN : head' = Checkout(ok, branch)
    /\ ipc' = "get_last_cherry_pick_sha"
    /\ UNCHANGED <<status, runs, branches, log, last_sha, commit_sha, existed, trace>>
    /\ UNCHANGED cacheVars

\* commit_sha = normalize_commit_sha(json_data["commit_sha"]) and the first
\* command of get_last_cherry_pick_sha(branch): 'git checkout branch' with
\* exit_on_failure=False.
get_last_cherry_pick_sha ==
    /\ ipc = "get_last_cherry_pick_sha"
    /\ commit_sha' = normalize_commit_sha(ConfigCommitSha)
    /\ \E ok \in BOOLEAN : head' = Checkout(ok, branch)
    /\ ipc' = "get_commit"
    /\ UNCHANGED <<status, runs, branches, log, last_sha, existed, trace>>
    /\ UNCHANGED cacheVars

\* The SHA in the message of a commit: of the line with 'cherry picked from',
\* the last word without its last character.
ShaOf(commit) == IF commit.kind = "pick" THEN Some(commit.sha) ELSE None

\* The rest of get_last_cherry_pick_sha: 'git log -n 1' with
\* exit_on_failure=True, on the branch that is checked out.
get_commit ==
    /\ ipc = "get_commit"
    /\ \E ok \in BOOLEAN :
          IF ok
          THEN /\ last_sha' = ShaOf(Last(log[head]))
               /\ ipc' = "skip"
               /\ UNCHANGED <<trace, status>>
          ELSE /\ Failed("log", TRUE, "skip")
               /\ UNCHANGED last_sha
    /\ UNCHANGED <<runs, branches, head, log, commit_sha, existed>>
    /\ UNCHANGED cacheVars

\* commit_sha.index(last_sha) + 1, counted from 1.
NextShaIdx ==
    1 + CHOOSE i \in 1..Len(commit_sha) :
            /\ commit_sha[i] = The(last_sha)
            /\ \A j \in 1..(i - 1) : commit_sha[j] # The(last_sha)

\* if last_sha: the assert, the index of the next SHA, sys.exit(0) when there
\* is none, the slice of commit_sha otherwise.
SkipApplied ==
    /\ ipc = "skip"
    /\ IF last_sha = None
       THEN /\ ipc' = "cherry_pick"
            /\ UNCHANGED <<commit_sha, status>>
       ELSE IF The(last_sha) \notin Range(commit_sha)
       THEN /\ ipc' = "exit"
            /\ status' = Some(1)
            /\ UNCHANGED commit_sha
       ELSE IF NextShaIdx > Len(commit_sha)
       THEN /\ ipc' = "exit"
            /\ status' = Some(0)
            /\ UNCHANGED commit_sha
       ELSE /\ ipc' = "cherry_pick"
            /\ commit_sha' = SubSeq(commit_sha, NextShaIdx, Len(commit_sha))
            /\ UNCHANGED status
    /\ UNCHANGED <<runs, branches, head, log, last_sha, existed, trace>>
    /\ UNCHANGED cacheVars

\* One turn of 'for sha in commit_sha': 'git cherry-pick -x sha' with
\* exit_on_failure=True, on the branch that is checked out.
CherryPick ==
    /\ ipc = "cherry_pick"
    /\ commit_sha # <<>>
    /\ \E ok \in BOOLEAN :
          IF ok
          THEN /\ log' = [log EXCEPT ![head] = Append(@, CherryPicked(Head(commit_sha)))]
               /\ trace' = Append(trace, PickEvent(Head(commit_sha), head))
               /\ commit_sha' = Tail(commit_sha)
               /\ UNCHANGED <<ipc, status>>
          ELSE /\ Failed("cherry-pick", TRUE, "cherry_pick")
               /\ commit_sha' = IF ipc' = "exit" THEN commit_sha ELSE Tail(commit_sha)
               /\ UNCHANGED log
    /\ UNCHANGED <<runs, branches, head, last_sha, existed>>
    /\ UNCHANGED cacheVars

\* rel_log.info("Finished import successfully :)") and the end of the script.
Finish ==
    /\ ipc = "cherry_pick"
    /\ commit_sha = <<>>
    /\ trace' = Append(trace, Event("success"))
    /\ ipc' = "exit"
    /\ status' = Some(0)
    /\ UNCHANGED <<runs, branches, head, log, last_sha, commit_sha, existed>>
    /\ UNCHANGED cacheVars

\* Between two runs the user checks out another branch.
UserCheckout(name) ==
    /\ ipc \in {"off", "exit"}
    /\ name \in branches
    /\ name # head
    /\ head' = name
    /\ UNCHANGED <<ipc, status, runs, branches, log, last_sha, commit_sha, existed,
                   trace>>
    /\ UNCHANGED cacheVars

\* The repository before the first run: master is checked out; a branch whose
\* name begins with the name of the feature branch may exist; the last commit
\* of master may be a cherry-pick of a commit that the config does not list.
InitImp ==
    /\ CacheInit
    /\ ipc = "off"
    /\ status = None
    /\ runs = 0
    /\ branches \in {{Master}, {Master, OtherBranch}}
    /\ head = Master
    /\ \E m \in {<<Plain>>, <<Plain, CherryPicked("z")>>} :
          log = [b \in BranchNames |-> IF b \in branches THEN m ELSE <<>>]
    /\ last_sha = None
    /\ commit_sha = <<>>
    /\ existed = FALSE
    /\ trace = <<>>

NextImp ==
    \/ Start
    \/ branch_exists
    \/ del_file
    \/ remove_dest
    \/ delete_dir_files
    \/ copy_file
    \/ copy_folder
    \/ create_branch
    \/ add_files
    \/ commit_branch
    \/ branch_checkout
    \/ get_last_cherry_pick_sha
    \/ get_commit
    \/ SkipApplied
    \/ CherryPick
    \/ Finish
    \/ \E name \in BranchNames : UserCheckout(name)

SpecImp == InitImp /\ [][NextImp]_vars

\* =================================================================== claims
\* No worker thread of the running batch can take another step.
Quiescent ==
    \A w \in Workers :
        workers[w].pc = "dead" \/ (workers[w].pc = "get" /\ queue = <<>>)

\* C1: in generate_index, whatever failure one descriptor produces, every
\* other listed descriptor is still processed and the rebuild is not aborted:
\* when the Readers can do no more, no descriptor is left on the queue and no
\* item is left unfinished, so that q.join() returns and the index is written.
C1_DescriptorFailureContained ==
    (cpc = "join" /\ kind = "_generate_index_helper" /\ Quiescent)
        => (queue = <<>> /\ unfinished = 0)

\* C2: in cache_descriptor_list and cache_pack_list the failure of one URL
\* never prevents another URL of the batch from being downloaded: when the
\* Cachers can do no more, no URL of the batch is left on the queue.
C2_OtherUrlsStillCached ==
    (cpc = "join" /\ kind \in {"cache_file", "cache_pdsc_and_pack"} /\ Quiescent)
        => queue = <<>>

\* C3: once every per-item call of a batch has ended, by returning or by
\* raising, q.join() does not block: no task is left unfinished.
C3_JoinReturns ==
    (/\ cpc = "join"
     /\ queue = <<>>
     /\ \A w \in Workers : workers[w].pc \in {"get", "dead"})
        => unfinished = 0

\* C4: a generate_index over cached files that did not change since the last
\* generate_index wrote index.json builds the index that index.json holds.
C4_RebuildDeterministic ==
    (cpc = "dump" /\ ~changed /\ indexJson # None) => dump(_index) = The(indexJson)

\* C5: during an index rebuild at most one thread writes self._index: no two
\* workers are at self._index.update at the same time.
C5_SingleWriter ==
    Cardinality({w \in Workers : workers[w].pc = "update"}) <= 1

\* C6: no two workers have the same cache path open for writing at the same
\* time.
C6_DistinctOpenPaths ==
    \A v, w \in Workers :
        (v # w /\ workers[v].pc = "perform" /\ workers[w].pc = "perform")
            => Dest(workers[v].url) # Dest(workers[w].url)

\* An attribute or a tag that _extract_dict needs is missing in device.
LacksRequired(device) ==
    \/ MemoryRaises(device)
    \/ AlgorithmRaises(device)
    \/ DebugRaises(device)
    \/ CompileRaises(device)

\* C7, as the specification states it: for a device element that lacks a
\* required attribute, the record _extract_dict returns has the file field
\* and none of memory, algorithm, debug, compile.
C7_OnlyFilePopulated ==
    (ret.op = "_extract_dict" /\ LacksRequired(ret.device))
        => DOMAIN ret.value = {"file"}

\* C7, amended: the record has the file field, with the file name given, and
\* those of memory, algorithm, debug, compile, in this order, that come
\* before the first one whose tag or attribute is missing.
C7_FieldsBeforeFirstMissing ==
    ret.op = "_extract_dict" =>
        LET d == ret.device
            m == ~MemoryRaises(d)
            a == m /\ ~AlgorithmRaises(d)
            g == a /\ ~DebugRaises(d)
            c == g /\ ~CompileRaises(d)
        IN  /\ ret.value.file = ret.filename
            /\ DOMAIN ret.value =
                  {"file"} \cup (IF m THEN {"memory"} ELSE {})
                           \cup (IF a THEN {"algorithm"} ELSE {})
                           \cup (IF g THEN {"debug"} ELSE {})
                           \cup (IF c THEN {"compile"} ELSE {})

\* A device with memory elements and an <algorithm> without name, whose other
\* tags are complete, gave a record of file and memory.
C7_Witness ==
    /\ ret.op = "_extract_dict"
    /\ ret.device.memory # <<>>
    /\ ~MemoryRaises(ret.device)
    /\ ret.device.algorithm = Some([name |-> None])
    /\ ~DebugRaises(ret.device)
    /\ ~CompileRaises(ret.device)
    /\ DOMAIN ret.value = {"file", "memory"}

\* C8: find_device returns exactly the entries whose key has the largest score
\* among the keys of the index, each once and with its own record, and the
\* empty list for an empty index.
C8_AllBestMatches ==
    ret.op = "find_device" =>
        LET keys == DOMAIN ret.index
            best == {k \in keys : \A j \in keys : ret.score[j] <= ret.score[k]}
        IN  /\ {ret.value[i][1] : i \in 1..Len(ret.value)} = best
            /\ Len(ret.value) = Cardinality(best)
            /\ \A i \in 1..Len(ret.value) :
                  ret.value[i][2] = ret.index[ret.value[i][1]]
            /\ (keys = {} => ret.value = <<>>)

\* Of three keys two tie at the largest score and both are returned.
C8_Witness ==
    /\ ret.op = "find_device"
    /\ Cardinality(DOMAIN ret.index) = 3
    /\ Len(ret.value) = 2
    /\ ret.score[ret.value[1][1]] = ret.score[ret.value[2][1]]
    /\ \E k \in DOMAIN ret.index : ret.score[k] < ret.score[ret.value[1][1]]

\* generate_index has returned and no cached file was written since.
Returned == cpc = "idle" /\ indexJson # None /\ ~changed

\* The names of the devices that the cached file of the URL u declares.
Declares(u) ==
    LET devices == files[Dest(u)].devices
    IN  {The(devices[i].dname) : i \in {j \in 1..Len(devices) : devices[j].dname # None}}

C10_FailedDownloadLeavesNoFile ==
    cpc = "idle" =>
        \A u \in AllUrls :
            DidNotDownload(u) \in DOMAIN stderr => files[Dest(u)] = NoFile

\* C11: after a batch of downloads in which a URL answered with an HTTP error
\* status, no cache file was created for that URL (of n URLs with k such
\* answers, n-k files are created): no cache file holds the page of an HTTP
\* error answer.
C11_HttpErrorNotCached ==
    cpc = "idle" => \A p \in AllPaths : files[p] # NotFoundPage

\* C12: when generate_index reads a descriptor that was never cached, the
\* I/O failure reaches the caller of generate_index: once a Reader has hit the
\* IOError of pull_from_cache, the call has raised IOError to its caller.
C12_ReadFailureReachesCaller ==
    \A w \in Workers :
        (/\ kind = "_generate_index_helper"
         /\ workers[w].pc = "dead"
         /\ workers[w].phase = "IOError")
            => cexc = "IOError"

\* C13: once a cache file has been written, no later step changes what it
\* holds: a path that holds a downloaded body holds the same body after every
\* step.
C13_WrittenFileImmutable ==
    [][\A p \in AllPaths :
          files[p].kind \notin {"nofile", "empty"} => files'[p] = files[p]]_vars

\* The URL without its protocol prefix: a leading "scheme://" is dropped.
WithoutProtocolPrefix(url) ==
    IF Len(url) >= 2 /\ IsWord(url[1]) /\ url[2] = "://" THEN SubSeq(url, 3, Len(url))
    ELSE IF url # <<>> /\ url[1] = "://" THEN Tail(url)
    ELSE url

\* C14: cache_file and pull_from_cache compute the same path for a URL, and
\* that path is the URL without its protocol prefix, placed under the data
\* directory.
C14_PathIsUrlWithoutPrefix ==
    ret.op = "dest" =>
        /\ ret.cache_file = ret.pull_from_cache
        /\ ret.cache_file = DataDir \o <<"/">> \o WithoutProtocolPrefix(ret.url)

\* The options that put a time limit on a download.
TimeoutOptions == {"CONNECTTIMEOUT", "LOW_SPEED_LIMIT", "LOW_SPEED_TIME"}

\* C19, as the specification states it: unless the caller asked for timeouts,
\* cache_file sets no connect timeout and no low-speed timeout; a Cache whose
\* caller left the timeout setting alone (no_timeouts false) downloads without
\* them.
C19_NoTimeoutByDefault ==
    (ret.op = "cache_file" /\ ~ret.no_timeouts)
        => DOMAIN ret.options \cap TimeoutOptions = {}

\* C19, amended: cache_file sets a connect timeout of 2 s and a low-speed
\* timeout (less than 50 KiB/s during 2 s) exactly when the Cache was
\* constructed with no_timeouts false; with no_timeouts true it sets none of
\* the three options.
C19_TimeoutsUnlessOptedOut ==
    ret.op = "cache_file" =>
        IF ret.no_timeouts
        THEN DOMAIN ret.options \cap TimeoutOptions = {}
        ELSE /\ TimeoutOptions \subseteq DOMAIN ret.options
             /\ ret.options.CONNECTTIMEOUT = 2
             /\ ret.options.LOW_SPEED_LIMIT = 51200
             /\ ret.options.LOW_SPEED_TIME = 2

\* A download of a Cache constructed with no_timeouts false ran with the
\* three timeout options set.
C19_Witness ==
    /\ ret.op = "cache_file"
    /\ ~ret.no_timeouts
    /\ TimeoutOptions \subseteq DOMAIN ret.options

\* C15: in cache_everything and cache_descriptors an index is generated after
\* the downloads: when the download workers of such a call can do no more, the
\* batch has finished, so that q.join() returns and generate_index starts.
C15_IndexFollowsDownloads ==
    (cpc = "join" /\ after = "generate_index" /\ Quiescent) => unfinished = 0

\* C17: if one worker blocks forever in its network call, every other URL of
\* the batch is still taken from the queue by the remaining workers: with one
\* worker in curl.perform() and none of the others able to take a step, no
\* URL is left on the queue.
C17_OthersStillProcessed ==
    \A w \in Workers :
        (/\ cpc = "join"
         /\ workers[w].pc = "perform"
         /\ \A v \in Workers \ {w} :
               workers[v].pc = "dead" \/ (workers[v].pc = "get" /\ queue = <<>>))
            => queue = <<>>

\* C18: across the batch operations on a Cache the number of live worker
\* threads never exceeds the size of the pool that one do_queue starts.
C18_PoolBounded == threads <= PoolSize

\* The value of the index property: self._index, or what index.json holds
\* when self._index is empty.
IndexProperty == IF _index # EmptyIndex THEN _index ELSE load(The(indexJson))

\* C16: whenever generate_index has returned and no rebuild is in progress,
\* index.json holds the index that the index property returns, as json.dump
\* writes it; and index.json is written only when every descriptor of the
\* rebuild has been merged: no item on the queue, no task unfinished, no
\* Reader inside a call.
C16_SnapshotIsIndex ==
    /\ (cpc = "idle" /\ indexJson # None) => The(indexJson) = dump(IndexProperty)
    /\ cpc = "dump" =>
          /\ queue = <<>>
          /\ unfinished = 0
          /\ \A w \in Workers : workers[w].pc = "get"

\* generate_index returned with an index of two devices, one of them with a
\* compile tuple that index.json holds as a list.
C16_Witness ==
    /\ cpc = "idle"
    /\ indexJson # None
    /\ DOMAIN _index = {"X", "Y"}
    /\ _index["Y"].compile.type = "tuple"
    /\ The(indexJson)["Y"].compile.type = "list"

FindDeviceCalled == ops' # ops /\ (ret'.op = "find_device" \/ after' = "find")

\* C21, as the specification states it: from the call of find_device until
\* it returns, whatever the starting state, no cached file and not index.json
\* is changed and no worker thread is started for a download or a rebuild.
C21_LookupIsPure ==
    [][(FindDeviceCalled \/ after = "find")
          => (files' = files /\ indexJson' = indexJson /\ threads' = threads)]_vars

\* C21, amended: when self._index is not empty or index.json exists,
\* find_device returns in the step of the call, leaving the cached files and
\* index.json as they are and starting no thread; the index property calls
\* generate_index only when self._index is empty and there is no index.json.
C21_LookupIsPureWhenIndexKnown ==
    [][/\ (FindDeviceCalled /\ (_index # EmptyIndex \/ indexJson # None))
            => /\ ret'.op = "find_device"
               /\ cpc' = "idle"
               /\ files' = files
               /\ indexJson' = indexJson
               /\ threads' = threads
       /\ (after' = "find" /\ after # "find")
            => (_index = EmptyIndex /\ indexJson = None)]_vars

\* find_device returned as the second call on a Cache whose first call,
\* cache_descriptors, had cached the two listed descriptors and written
\* index.json: the lookup found the index of X and Y.
C21_Witness ==
    /\ ret.op = "find_device"
    /\ cpc = "idle"
    /\ ops = 2
    /\ total = 2
    /\ indexJson # None
    /\ DOMAIN ret.index = {"X", "Y"}
    /\ files[Dest(UrlA)] = DocA

\* C26: the progress counter never exceeds total.
C26_CounterWithinTotal == counter <= total

\* The number a version component stands for.
Number(t) ==
    CASE t = "0" -> 0 [] t = "1" -> 1 [] t = "2" -> 2 [] t = "9" -> 9 [] t = "10" -> 10

\* Version a is below version b when the two are compared number by number,
\* component by component; a version that is the beginning of another is
\* below it.
RECURSIVE NumericLess(_, _)
NumericLess(a, b) ==
    IF b = <<>> THEN FALSE
    ELSE IF a = <<>> THEN TRUE
    ELSE IF Head(a) = "." /\ Head(b) = "." THEN NumericLess(Tail(a), Tail(b))
    ELSE IF Number(Head(a)) # Number(Head(b)) THEN Number(Head(a)) < Number(Head(b))
    ELSE NumericLess(Tail(a), Tail(b))

\* C27: largest_version returns the release version that is greatest when
\* versions are compared numerically, component by component: no release of
\* the PDSC is numerically above the one returned.
C27_NumericallyLargest ==
    ret.op = "largest_version" =>
        /\ ret.value \in Range(ret.versions)
        /\ \A v \in Range(ret.versions) : ~NumericLess(ret.value, v)


\* ------------------------------------------------------------------- C22
Prepared == {"delete", "copy", "branch", "add", "commit"}

Rank(e) ==
    CASE e = "delete" -> 1
      [] e = "copy" -> 2
      [] e = "branch" -> 3
      [] e = "add" -> 4
      [] e = "commit" -> 5
      [] OTHER -> 6

\* C22: in a run that finds the feature branch in the repository nothing is
\* deleted, copied, created or committed; in a run that does not find it the
\* deletions come before the copies, these before the creation of the branch,
\* the add and the import commit, and every cherry-pick comes after the import
\* commit.
C22_PreparationOnlyWithoutBranch ==
    /\ existed => \A i \in DOMAIN trace : trace[i].e \notin Prepared
    /\ ~existed =>
          /\ \A i, j \in DOMAIN trace :
                (i < j /\ trace[i].e # "fail" /\ trace[j].e \notin {"fail", "success"})
                    => Rank(trace[i].e) <= Rank(trace[j].e)
          /\ \A j \in DOMAIN trace :
                trace[j].e = "pick"
                    => \A e \in {"branch", "add", "commit"} :
                          \E i \in 1..(j - 1) : trace[i].e = e

\* ------------------------------------------------------------------- C23
\* C23: over the runs of the importer no branch gets two cherry-picks of the
\* same commit of the config list.
C23_NoCommitAppliedTwice ==
    \A b \in BranchNames :
       \A i, j \in DOMAIN log[b] :
          (i < j /\ log[b][i].kind = "pick") => log[b][i] # log[b][j]

\* ------------------------------------------------------------------- C24
\* C24: a git command that fails with exit_on_failure=True is the last thing
\* the run does: the script has exited with status 1, nothing is cherry-picked
\* afterwards and the success message is not logged.
C24_FailureExitsAtOnce ==
    \A i \in DOMAIN trace :
       trace[i].e = "fail"
           => /\ i = Len(trace)
              /\ ipc = "exit"
              /\ status = Some(1)

\* The first commit was cherry-picked and the cherry-pick of the second failed.
C24_Witness ==
    /\ Len(trace) >= 2
    /\ trace[Len(trace) - 1].e = "pick"
    /\ Last(trace) = FailEvent("cherry-pick")
    /\ status = Some(1)

\* ------------------------------------------------------------------- C25
\* C25: every cherry-pick is made with the feature branch checked out.
C25_PicksOnFeatureBranch ==
    \A i \in DOMAIN trace : trace[i].e = "pick" => trace[i].on = branch

====
